---- MODULE Spec2Model ----
(***************************************************************************)
(* Model of DistilBERT/realtime_network_monitor.py: the detector's         *)
(* multi-criterion attack classifier and running statistics                *)
(* (NetworkAttackDetector), and the producer/consumer streaming monitor    *)
(* (RealTimeMonitor) driven by main's --simulate branch.                   *)
(*                                                                         *)
(* Conventions.                                                            *)
(*  - A probability is an integer number of hundredths (85 is 0.85); the   *)
(*    comparisons of the code are kept as they are (> and >=).             *)
(*  - A class label is the sequence of its characters, so that lower()     *)
(*    and the substring tests 'DDoS' in cls, 'DoS' in cls are computed.    *)
(*  - Sequences are 1-based: index i here is index i-1 in the Python code. *)
(*  - A Python truth value carries its runtime type: the comparisons on    *)
(*    the numpy confidence give numpy.bool_, the membership tests give     *)
(*    bool, and `and` / `or` return one of their operands.                 *)
(***************************************************************************)
EXTENDS Integers, Sequences, FiniteSets, TLC

(***************************************************************************)
(* Bounds of the model.                                                    *)
(***************************************************************************)
\* rows of the replayed CSV file / number of add_data calls
MaxSamples == 2
\* start_monitoring calls of the free-call specification (threads spawned)
MaxWorkers == 2
\* predict calls of the direct-call specification
MaxPredictions == 1

(***************************************************************************)
(* Program constants.                                                      *)
(***************************************************************************)
\* confidence_threshold=0.8, the constructor's default
DefaultThreshold == 80
\* the absolute override, confidence > 0.9
OverrideConfidence == 90
\* np.float32: every integer below 2^24 is a float32
Float32Exact == 16777216
\* progress is reported every 100 rows: (idx + 1) % 100 == 0
ProgressEvery == 100

(***************************************************************************)
(* Strings.                                                                *)
(***************************************************************************)
UpperCase == <<"A","B","C","D","E","F","G","H","I","J","K","L","M",
               "N","O","P","Q","R","S","T","U","V","W","X","Y","Z">>
LowerCase == <<"a","b","c","d","e","f","g","h","i","j","k","l","m",
               "n","o","p","q","r","s","t","u","v","w","x","y","z">>

\* str.lower() on one character
LowerChar(c) ==
    IF \E i \in 1..Len(UpperCase) : UpperCase[i] = c
    THEN LowerCase[CHOOSE i \in 1..Len(UpperCase) : UpperCase[i] = c]
    ELSE c

\* str.lower()
Lower(s) == [i \in 1..Len(s) |-> LowerChar(s[i])]

\* sub in s, for strings
Contains(sub, s) ==
    \E i \in 1..(Len(s) - Len(sub) + 1) : SubSeq(s, i, i + Len(sub) - 1) = sub

\* the labels of the model's class lists
BenignTraffic     == <<"B","e","n","i","g","n","T","r","a","f","f","i","c">>
DDoS_ICMP_Flood   == <<"D","D","o","S","-","I","C","M","P","_","F","l","o","o","d">>
VulnerabilityScan == <<"V","u","l","n","e","r","a","b","i","l","i","t","y","S","c","a","n">>
Recon_PingSweep   == <<"R","e","c","o","n","-","P","i","n","g","S","w","e","e","p">>
NORMAL            == <<"N","O","R","M","A","L">>
DNS_Spoofing      == <<"D","N","S","_","S","p","o","o","f","i","n","g">>
BrowserHijacking  == <<"B","r","o","w","s","e","r","H","i","j","a","c","k","i","n","g">>
DoS_UDP_Flood     == <<"D","o","S","-","U","D","P","_","F","l","o","o","d">>

\* ['benigntraffic', 'benign', 'normal']
BenignNames ==
    { <<"b","e","n","i","g","n","t","r","a","f","f","i","c">>,
      <<"b","e","n","i","g","n">>,
      <<"n","o","r","m","a","l">> }

\* the list __init__ assigns to self.low_threat_classes
DefaultLowThreatClasses == {VulnerabilityScan, Recon_PingSweep, BrowserHijacking}

\* the list after an adjustment that rates the flood classes as low threat (the
\* attribute is a plain list of the detector, meant to be adjusted)
AdjustedLowThreatClasses == DefaultLowThreatClasses \cup {DDoS_ICMP_Flood, DoS_UDP_Flood}

\* self.low_threat_classes, part of the detector's state: predict reads it at each call
VARIABLE low_threat_classes

\* the substrings of the DDoS test
DDoS == <<"D","D","o","S">>
DoS  == <<"D","o","S">>

(***************************************************************************)
(* Inputs: the class lists of the loaded metadata, the thresholds given    *)
(* to the constructor, and the samples.  A sample stands for one row of    *)
(* features by what the pipeline does with it: either the normalisation /  *)
(* inference raises (bad), or the model returns the probability vector.    *)
(***************************************************************************)
ClassLists ==
    { <<BenignTraffic, DDoS_ICMP_Flood, VulnerabilityScan, Recon_PingSweep>>,
      <<NORMAL, DNS_Spoofing, BrowserHijacking, DoS_UDP_Flood>> }

Thresholds == {DefaultThreshold, 95}

\* the thresholds and the probability vectors of the direct-call specification: the
\* largest probability c at one index and the rest at another, c around each
\* threshold and around 0.9, with the two-way tie at 0.5; and a three-way split
\* with the two largest equal
WideThresholds == {50, DefaultThreshold, OverrideConfidence, 95}

Confidences == {50, 51, 79, 80, 81, 85, 89, 90, 91, 95, 96, 99, 100}

ProbabilityVectors ==
    { [k \in 1..4 |-> IF k = i THEN c ELSE IF k = j THEN 100 - c ELSE 0] :
        <<i, j, c>> \in { x \in (1..4) \X (1..4) \X Confidences : x[1] # x[2] } }
    \cup
    { [k \in 1..4 |-> IF k = i THEN 20 ELSE 40] : i \in {1, 4} }

Good(p) == [bad |-> FALSE, probabilities |-> p]

Samples ==
    { Good(<<99, 1, 0, 0>>),
      Good(<<5, 85, 5, 5>>),
      Good(<<5, 5, 85, 5>>),
      Good(<<0, 5, 0, 95>>),
      Good(<<10, 80, 5, 5>>),
      Good(<<10, 10, 40, 40>>),
      [bad |-> TRUE, probabilities |-> <<0, 0, 0, 0>>] }

(***************************************************************************)
(* Python truth values with their runtime type.                            *)
(***************************************************************************)
PyBool(b) == [v |-> b, np |-> FALSE]
NpBool(b) == [v |-> b, np |-> TRUE]
\* a and b
PyAnd(a, b) == IF a.v THEN b ELSE a
\* a or b
PyOr(a, b) == IF a.v THEN a ELSE b

(***************************************************************************)
(* NetworkAttackDetector.predict, the part after the inference call.       *)
(***************************************************************************)
\* a mutation of ArgMax: the last index of the maximum
ArgMaxLast(p) ==
    CHOOSE i \in 1..Len(p) :
        /\ \A j \in 1..Len(p) : p[j] <= p[i]
        /\ \A j \in (i + 1)..Len(p) : p[j] < p[i]

\* np.argmax: the first index of the maximum
ArgMax(p) ==
    CHOOSE i \in 1..Len(p) :
        /\ \A j \in 1..Len(p) : p[j] <= p[i]
        /\ \A j \in 1..(i - 1) : p[j] < p[i]

IsBenign(predicted_class) == Lower(predicted_class) \in BenignNames

IsHighThreat(predicted_class) == predicted_class \notin low_threat_classes

IsDDoS(predicted_class, classes) ==
    predicted_class \in
        { classes[i] : i \in { j \in 1..Len(classes) :
                                 Contains(DDoS, classes[j]) \/ Contains(DoS, classes[j]) } }

\* a mutation of IsCriticalAttack: no benign short-circuit
IsCriticalAttackNoBenign(predicted_class, confidence, classes, threshold) ==
    LET high_confidence_attack == NpBool(confidence > threshold)
        is_high_threat == PyBool(IsHighThreat(predicted_class))
        is_ddos == PyBool(IsDDoS(predicted_class, classes))
    IN  PyOr(PyOr(PyAnd(high_confidence_attack, is_high_threat),
                  PyAnd(high_confidence_attack, is_ddos)),
             NpBool(confidence > OverrideConfidence))

\* a mutation of IsCriticalAttack: no absolute override above 0.9
IsCriticalAttackNoOverride(predicted_class, confidence, classes, threshold) ==
    IF IsBenign(predicted_class)
    THEN PyBool(FALSE)
    ELSE LET high_confidence_attack == NpBool(confidence > threshold)
             is_high_threat == PyBool(IsHighThreat(predicted_class))
             is_ddos == PyBool(IsDDoS(predicted_class, classes))
         IN  PyOr(PyAnd(high_confidence_attack, is_high_threat),
                  PyAnd(high_confidence_attack, is_ddos))

\* a mutation of IsCriticalAttack: the threshold alone decides
IsCriticalAttackThresholdOnly(predicted_class, confidence, classes, threshold) ==
    IF IsBenign(predicted_class)
    THEN PyBool(FALSE)
    ELSE PyOr(NpBool(confidence > threshold),
              NpBool(confidence > OverrideConfidence))

\* a mutation of IsCriticalAttack: confidence >= threshold
IsCriticalAttackAtThreshold(predicted_class, confidence, classes, threshold) ==
    IF IsBenign(predicted_class)
    THEN PyBool(FALSE)
    ELSE LET high_confidence_attack == NpBool(confidence >= threshold)
             is_high_threat == PyBool(IsHighThreat(predicted_class))
             is_ddos == PyBool(IsDDoS(predicted_class, classes))
         IN  PyOr(PyOr(PyAnd(high_confidence_attack, is_high_threat),
                       PyAnd(high_confidence_attack, is_ddos)),
                  NpBool(confidence > OverrideConfidence))

\* a mutation of IsCriticalAttack: no DDoS disjunct
IsCriticalAttackNoDDoS(predicted_class, confidence, classes, threshold) ==
    IF IsBenign(predicted_class)
    THEN PyBool(FALSE)
    ELSE LET high_confidence_attack == NpBool(confidence > threshold)
             is_high_threat == PyBool(IsHighThreat(predicted_class))
         IN  PyOr(PyAnd(high_confidence_attack, is_high_threat),
                  NpBool(confidence > OverrideConfidence))

\* is_critical_attack
IsCriticalAttack(predicted_class, confidence, classes, threshold) ==
    IF IsBenign(predicted_class)
    THEN PyBool(FALSE)
    ELSE LET high_confidence_attack == NpBool(confidence > threshold)
             is_high_threat == PyBool(IsHighThreat(predicted_class))
             is_ddos == PyBool(IsDDoS(predicted_class, classes))
         IN  PyOr(PyOr(PyAnd(high_confidence_attack, is_high_threat),
                       PyAnd(high_confidence_attack, is_ddos)),
                  NpBool(confidence > OverrideConfidence))

\* the dictionary predict returns (timestamp and latency left out)
PredictResult(probabilities, classes, threshold) ==
    LET predicted_class_idx == ArgMax(probabilities)
        predicted_class == classes[predicted_class_idx]
        confidence == probabilities[predicted_class_idx]
        is_benign == IsBenign(predicted_class)
        is_critical_attack ==
            IsCriticalAttack(predicted_class, confidence, classes, threshold)
    IN  [ predicted_class |-> predicted_class,
          confidence |-> confidence,
          is_attack |-> is_critical_attack.v,
          is_attack_numpy |-> is_critical_attack.np,
          is_benign |-> is_benign,
          is_high_threat |-> IF ~is_benign THEN IsHighThreat(predicted_class) ELSE FALSE,
          is_ddos |-> IF ~is_benign THEN IsDDoS(predicted_class, classes) ELSE FALSE,
          confidence_threshold |-> threshold,
          all_probabilities |-> probabilities ]

(***************************************************************************)
(* NetworkAttackDetector.preprocess_features.  Feature values are integers; *)
(* a features_dict is a function from the names it holds to their values.  *)
(***************************************************************************)
\* the feature names of the metadata (distinct column labels), the names a row may
\* hold, and the values
FeatureNameLists == { <<"Header_Length", "Rate", "IAT">>, <<"Rate", "Header_Length">> }

RowNames == {"Header_Length", "Rate", "IAT", "Timestamp"}

FeatureValueSet == {0, 3, -2, 16777217}

FeatureDicts == UNION { [names -> FeatureValueSet] : names \in SUBSET RowNames }

\* the scaler of the metadata: fitted on three columns, it subtracts the column means
StandardScaler == [n_features_in |-> 3, mean |-> <<1, 2, 3>>]

\* features_dict.get(feature_name, 0.0)
DictGet(d, k, default) == IF k \in DOMAIN d THEN d[k] ELSE default

\* a mutation of FeatureRow: the names the row does not hold are left out
FeatureRowPresentOnly(features_dict, names) ==
    LET present == SelectSeq(names, LAMBDA n : n \in DOMAIN features_dict)
    IN  [i \in 1..Len(present) |-> features_dict[present[i]]]

\* feature_values, as the one row of features_df: the columns in feature_names order
FeatureRow(features_dict, names) ==
    [i \in 1..Len(names) |-> DictGet(features_dict, names[i], 0)]

\* self.scaler.transform raises: the frame has not the columns the scaler was fitted on
ScalerRaises(sc, X) == \E r \in 1..Len(X) : Len(X[r]) # sc.n_features_in

\* self.scaler.transform
ScalerTransform(sc, X) ==
    [r \in 1..Len(X) |-> [i \in 1..Len(X[r]) |-> X[r][i] - sc.mean[i]]]

\* the distance between neighbouring float32 values at magnitude a
RECURSIVE Spacing(_)
Spacing(a) == IF a < Float32Exact THEN 1 ELSE 2 * Spacing(a \div 2)

\* astype(np.float32) of an integer value: the nearest float32, ties to the even one
AsFloat32(x) ==
    LET a == IF x < 0 THEN -x ELSE x
        e == Spacing(a)
        q == a \div e
        r == a % e
        m == IF 2 * r < e THEN q
             ELSE IF 2 * r > e THEN q + 1
             ELSE IF q % 2 = 0 THEN q ELSE q + 1
    IN  IF x < 0 THEN -(m * e) ELSE m * e

\* preprocess_features: the array returned, one row
preprocess_features(features_dict, names, sc) ==
    LET features_df == << FeatureRow(features_dict, names) >>
        features_scaled == IF ScalerRaises(sc, features_df)
                           THEN features_df
                           ELSE ScalerTransform(sc, features_df)
    IN  [r \in 1..Len(features_scaled) |->
           [i \in 1..Len(features_scaled[r]) |-> AsFloat32(features_scaled[r][i])]]

(***************************************************************************)
(* State.                                                                  *)
(***************************************************************************)
VARIABLES
    \* NetworkAttackDetector
    classes,               \* self.classes
    confidence_threshold,  \* self.confidence_threshold
    feature_names,         \* self.feature_names
    scaler,                \* self.scaler
    total_predictions,     \* self.total_predictions
    attack_detections,     \* self.attack_detections
    inference_times,       \* len(self.inference_times); the latencies are not modelled
    \* RealTimeMonitor
    data_queue,            \* self.data_queue: the items not yet taken
    unfinished_tasks,      \* self.data_queue.unfinished_tasks, which join() waits on
    running,               \* self.running
    results,               \* self.results
    result_file,           \* whether self.result_file is set
    \* the sinks
    log_file,              \* the lines of attack_log.json
    report,                \* the lines of the result file (of stdout when none is set)
    \* the threads started by start_monitoring
    wpc,                   \* where each thread is in process_data_stream
    item,                  \* features_dict of the thread, <<>> when it holds none
    result,                \* result of the thread, <<>> when it holds none
    \* main, --simulate
    mainpc,                \* where main is
    fed,                   \* the rows handed to add_data so far, in order
    interrupted,           \* whether the KeyboardInterrupt handler ran
    stats,                 \* the last snapshot get_statistics returned, <<>> when none
    shown,                 \* the result of main's own predict call, <<>> when none
    \* preprocess_features called on its own
    features_dict_in,      \* the features_dict of the call
    features               \* the array the call returned, <<>> when none

detector == <<classes, confidence_threshold, low_threat_classes, feature_names, scaler,
              total_predictions, attack_detections, inference_times>>
monitor  == <<data_queue, unfinished_tasks, running, results, result_file>>
sinks    == <<log_file, report>>
threads  == <<wpc, item, result>>
caller   == <<mainpc, fed, interrupted, stats, shown>>
preprocessed == <<features_dict_in, features>>
vars     == <<detector, monitor, sinks, threads, caller, preprocessed>>

Workers == 1..MaxWorkers

(***************************************************************************)
(* The lines written to the report sink.                                   *)
(***************************************************************************)
\* a mutation of Bucket: the suspicious branch compares with >
BucketStrict(r, threshold) ==
    IF r.is_attack THEN "ATAQUE CRITICO"
    ELSE IF r.is_benign THEN "TRAFEGO NORMAL"
    ELSE IF r.confidence > threshold THEN "ATIVIDADE SUSPEITA"
    ELSE "BAIXO RISCO"

\* the if / elif chain of process_data_stream
Bucket(r, threshold) ==
    IF r.is_attack THEN "ATAQUE CRITICO"
    ELSE IF r.is_benign THEN "TRAFEGO NORMAL"
    ELSE IF r.confidence >= threshold THEN "ATIVIDADE SUSPEITA"
    ELSE "BAIXO RISCO"

\* message of process_data_stream
Notice(r, threshold) ==
    [ kind |-> Bucket(r, threshold),
      predicted_class |-> r.predicted_class,
      confidence |-> r.confidence ]

\* error_msg of process_data_stream
ErrorLine == [kind |-> "Erro no processamento"]

\* the other lines main and simulate_network_data write
InfoLine(text) == [kind |-> text]

\* the if / elif chain of save_all_results
ReportStatus(r, threshold) ==
    IF r.is_attack THEN "ATAQUE CRITICO"
    ELSE IF r.is_benign THEN "TRAFEGO NORMAL"
    ELSE IF r.confidence >= threshold THEN "ATIVIDADE SUSPEITA"
    ELSE "BAIXO RISCO"

\* the text save_all_results writes
FinalReport(rs, threshold) ==
    LET attacks == SelectSeq(rs, LAMBDA r : r.is_attack)
        low_confidence == SelectSeq(rs, LAMBDA r : r.confidence < threshold)
        high_confidence == SelectSeq(rs, LAMBDA r : r.confidence >= threshold)
    IN  [ kind |-> "RESULTADOS DA ANALISE",
          total |-> Len(rs),
          attacks |-> Len(attacks),
          normal |-> Len(rs) - Len(attacks),
          low_confidence |-> Len(low_confidence),
          high_confidence |-> Len(high_confidence),
          details |-> [ i \in 1..Len(rs) |->
                          [ status |-> ReportStatus(rs[i], threshold),
                            predicted_class |-> rs[i].predicted_class,
                            confidence |-> rs[i].confidence,
                            is_benign |-> rs[i].is_benign,
                            is_ddos |-> rs[i].is_ddos,
                            is_high_threat |-> rs[i].is_high_threat ] ] ]

(***************************************************************************)
(* NetworkAttackDetector.get_statistics.                                   *)
(***************************************************************************)
\* attack_detections / total_predictions if total_predictions > 0 else 0, as a fraction
AttackRate(attacks, total) ==
    IF total > 0 THEN [num |-> attacks, den |-> total] ELSE [num |-> 0, den |-> 1]

\* the keys of the snapshot, in insertion order
StatKeys == <<"total_predictions", "attack_detections", "attack_rate",
              "avg_inference_time_ms", "max_inference_time_ms",
              "min_inference_time_ms", "throughput_per_second",
              "confidence_threshold">>

\* the dictionary get_statistics returns
Statistics(total, attacks, times, threshold) ==
    IF times = 0
    THEN [k \in {} |-> 0]
    ELSE [ total_predictions |-> total,
           attack_detections |-> attacks,
           attack_rate |-> AttackRate(attacks, total),
           avg_inference_time_ms |-> "measured",
           max_inference_time_ms |-> "measured",
           min_inference_time_ms |-> "measured",
           throughput_per_second |-> "measured",
           confidence_threshold |-> threshold ]

\* stats.items(), one line per entry
StatLines(s) ==
    LET keys == SelectSeq(StatKeys, LAMBDA k : k \in DOMAIN s)
    IN  [ i \in 1..Len(keys) |-> [kind |-> "stat", key |-> keys[i], value |-> s[keys[i]]] ]

(***************************************************************************)
(* queue.Queue.                                                            *)
(***************************************************************************)
\* a mutation of QueueGet: the newest item is taken
QueueGetNewest(q) == [item |-> q[Len(q)], rest |-> SubSeq(q, 1, Len(q) - 1)]

\* Queue.get on a queue that holds an item: the oldest one
QueueGet(q) == [item |-> Head(q), rest |-> Tail(q)]

(***************************************************************************)
(* Initial states: the detector and the monitor as constructed.            *)
(***************************************************************************)
Constructed ==
    /\ classes \in ClassLists
    /\ total_predictions = 0
    /\ attack_detections = 0
    /\ inference_times = 0
    /\ data_queue = <<>>
    /\ unfinished_tasks = 0
    /\ running = FALSE
    /\ results = <<>>
    /\ log_file = <<>>
    /\ report = <<>>
    /\ wpc = [w \in Workers |-> "none"]
    /\ item = [w \in Workers |-> <<>>]
    /\ result = [w \in Workers |-> <<>>]
    /\ fed = <<>>
    /\ interrupted = FALSE
    /\ stats = <<>>
    /\ shown = <<>>
    /\ scaler = StandardScaler
    /\ features = <<>>

\* the detector as __init__ leaves it, loaded from metadata of three features, and
\* preprocess_features not called on its own
AsConstructed ==
    /\ low_threat_classes = DefaultLowThreatClasses
    /\ feature_names = <<"Header_Length", "Rate", "IAT">>
    /\ features_dict_in = <<>>

\* main with --simulate: the result file is always named.  main itself leaves the
\* threshold at its default; the constructor takes any, so both are started from.
Init ==
    /\ Constructed
    /\ confidence_threshold \in Thresholds
    /\ result_file = TRUE
    /\ mainpc = "start"
    /\ AsConstructed

\* the monitor used through its methods, with or without a result file
InitCalls ==
    /\ Constructed
    /\ confidence_threshold \in Thresholds
    /\ result_file \in BOOLEAN
    /\ mainpc = "calls"
    /\ AsConstructed

(***************************************************************************)
(* The methods of RealTimeMonitor and NetworkAttackDetector the caller     *)
(* uses.                                                                   *)
(***************************************************************************)
\* the thread start_monitoring starts: the next one not yet used
SpawnedBy(pcs) ==
    { w \in Workers : pcs[w] = "none" /\ \A v \in 1..(w - 1) : pcs[v] # "none" }

\* start_monitoring
start_monitoring ==
    /\ running' = TRUE
    /\ \E w \in SpawnedBy(wpc) : wpc' = [wpc EXCEPT ![w] = "loop"]
    /\ UNCHANGED <<detector, preprocessed, data_queue, unfinished_tasks, results, result_file,
                   sinks, item, result, fed, interrupted, stats, shown>>

\* a mutation of stop_monitoring: the pending samples are dropped as well
stop_monitoring_and_clear ==
    /\ running' = FALSE
    /\ data_queue' = <<>>
    /\ unfinished_tasks' = unfinished_tasks - Len(data_queue)
    /\ UNCHANGED <<detector, preprocessed, results, result_file,
                   sinks, threads, fed, interrupted, stats, shown>>

\* stop_monitoring
stop_monitoring ==
    /\ running' = FALSE
    /\ UNCHANGED <<detector, preprocessed, data_queue, unfinished_tasks, results, result_file,
                   sinks, threads, fed, interrupted, stats, shown>>

\* add_data: Queue.put
add_data(features_dict) ==
    /\ data_queue' = Append(data_queue, features_dict)
    /\ unfinished_tasks' = unfinished_tasks + 1
    /\ fed' = Append(fed, features_dict)

\* save_result: one more line in the result file, or on stdout
save_result(lines) == report' = report \o lines

\* save_all_results: the result file is rewritten when it is named and there are results
save_all_results ==
    report' = IF result_file /\ results # <<>>
              THEN << FinalReport(results, confidence_threshold) >>
              ELSE report

\* get_statistics
get_statistics ==
    Statistics(total_predictions, attack_detections, inference_times, confidence_threshold)

(***************************************************************************)
(* process_data_stream, one thread w.  The thread runs as long as the      *)
(* process does: it is a daemon thread, gone when main returns.            *)
(***************************************************************************)
ProcessAlive == mainpc # "exit"

\* a mutation of WLoop: while True
WLoopForever(w) ==
    /\ ProcessAlive
    /\ wpc[w] = "loop"
    /\ wpc' = [wpc EXCEPT ![w] = "get"]
    /\ UNCHANGED <<detector, preprocessed, monitor, sinks, item, result, caller>>

\* while self.running
WLoop(w) ==
    /\ ProcessAlive
    /\ wpc[w] = "loop"
    /\ wpc' = [wpc EXCEPT ![w] = IF running THEN "get" ELSE "exited"]
    /\ UNCHANGED <<detector, preprocessed, monitor, sinks, item, result, caller>>

\* self.data_queue.get(timeout=1) returns an item
WGet(w) ==
    /\ ProcessAlive
    /\ wpc[w] = "get"
    /\ data_queue # <<>>
    /\ item' = [item EXCEPT ![w] = << QueueGet(data_queue).item >>]
    /\ data_queue' = QueueGet(data_queue).rest
    /\ wpc' = [wpc EXCEPT ![w] = "predict"]
    /\ UNCHANGED <<detector, preprocessed, unfinished_tasks, running, results, result_file,
                   sinks, result, caller>>

\* a mutation of WGetEmpty: get() without a timeout, blocked while the queue is empty
WGetBlocks(w) ==
    /\ FALSE
    /\ UNCHANGED vars

\* self.data_queue.get(timeout=1) raises queue.Empty: continue
WGetEmpty(w) ==
    /\ ProcessAlive
    /\ wpc[w] = "get"
    /\ data_queue = <<>>
    /\ wpc' = [wpc EXCEPT ![w] = "loop"]
    /\ UNCHANGED <<detector, preprocessed, monitor, sinks, item, result, caller>>

\* a mutation of AttackIncrement: every non-benign prediction is counted
AttackIncrementNonBenign(r) == IF ~r.is_benign THEN 1 ELSE 0

\* if is_critical_attack: self.attack_detections += 1
AttackIncrement(r) == IF r.is_attack THEN 1 ELSE 0

\* result = self.detector.predict(features_dict)
WPredict(w) ==
    /\ ProcessAlive
    /\ wpc[w] = "predict"
    /\ LET features_dict == item[w][1]
           r == PredictResult(features_dict.probabilities, classes, confidence_threshold)
       IN  IF features_dict.bad
           THEN /\ wpc' = [wpc EXCEPT ![w] = "except"]
                /\ UNCHANGED <<total_predictions, attack_detections, inference_times,
                               result>>
           ELSE /\ total_predictions' = total_predictions + 1
                /\ inference_times' = inference_times + 1
                /\ attack_detections' = attack_detections + AttackIncrement(r)
                /\ result' = [result EXCEPT ![w] = << r >>]
                /\ wpc' = [wpc EXCEPT ![w] = "append"]
    /\ UNCHANGED <<classes, confidence_threshold, low_threat_classes, feature_names,
                   scaler, preprocessed, monitor, sinks, item, caller>>

\* self.results.append(result)
WAppend(w) ==
    /\ ProcessAlive
    /\ wpc[w] = "append"
    /\ results' = Append(results, result[w][1])
    /\ wpc' = [wpc EXCEPT ![w] = "notify"]
    /\ UNCHANGED <<detector, preprocessed, data_queue, unfinished_tasks, running, result_file,
                   sinks, item, result, caller>>

\* self.save_result(message), in the branch the result selects
WNotify(w) ==
    /\ ProcessAlive
    /\ wpc[w] = "notify"
    /\ save_result(<< Notice(result[w][1], confidence_threshold) >>)
    /\ wpc' = [wpc EXCEPT ![w] = IF result[w][1].is_attack THEN "log" ELSE "task_done"]
    /\ UNCHANGED <<detector, preprocessed, monitor, log_file, item, result, caller>>

\* json.dumps(result): numpy.bool_ is not JSON serializable
JsonSerializable(r) == ~r.is_attack_numpy

\* self.log_detection(result)
WLog(w) ==
    /\ ProcessAlive
    /\ wpc[w] = "log"
    /\ IF JsonSerializable(result[w][1])
       THEN /\ log_file' = Append(log_file, result[w][1])
            /\ wpc' = [wpc EXCEPT ![w] = "task_done"]
       ELSE /\ wpc' = [wpc EXCEPT ![w] = "except"]
            /\ UNCHANGED log_file
    /\ UNCHANGED <<detector, preprocessed, monitor, report, item, result, caller>>

\* self.data_queue.task_done()
WTaskDone(w) ==
    /\ ProcessAlive
    /\ wpc[w] = "task_done"
    /\ unfinished_tasks' = unfinished_tasks - 1
    /\ wpc' = [wpc EXCEPT ![w] = "loop"]
    /\ item' = [item EXCEPT ![w] = <<>>]
    /\ result' = [result EXCEPT ![w] = <<>>]
    /\ UNCHANGED <<detector, preprocessed, data_queue, running, results, result_file,
                   sinks, caller>>

\* except Exception as e: self.save_result(error_msg)
WExcept(w) ==
    /\ ProcessAlive
    /\ wpc[w] = "except"
    /\ save_result(<< ErrorLine >>)
    /\ wpc' = [wpc EXCEPT ![w] = "loop"]
    /\ item' = [item EXCEPT ![w] = <<>>]
    /\ result' = [result EXCEPT ![w] = <<>>]
    /\ UNCHANGED <<detector, preprocessed, monitor, log_file, caller>>

Worker(w) ==
    \/ WLoop(w) \/ WGet(w) \/ WGetEmpty(w) \/ WPredict(w) \/ WAppend(w)
    \/ WNotify(w) \/ WLog(w) \/ WTaskDone(w) \/ WExcept(w)

(***************************************************************************)
(* The sinks failing: open() or write() of the result file or of the       *)
(* alert log raises (OSError).                                             *)
(***************************************************************************)
\* self.save_result(message) raises
WNotifyFails(w) ==
    /\ ProcessAlive
    /\ wpc[w] = "notify"
    /\ wpc' = [wpc EXCEPT ![w] = "except"]
    /\ UNCHANGED <<detector, preprocessed, monitor, sinks, item, result, caller>>

\* self.log_detection(result) raises in open() or write()
WLogFails(w) ==
    /\ ProcessAlive
    /\ wpc[w] = "log"
    /\ wpc' = [wpc EXCEPT ![w] = "except"]
    /\ UNCHANGED <<detector, preprocessed, monitor, sinks, item, result, caller>>

\* self.save_result(error_msg) raises inside the handler: the thread ends
WExceptFails(w) ==
    /\ ProcessAlive
    /\ wpc[w] = "except"
    /\ wpc' = [wpc EXCEPT ![w] = "dead"]
    /\ UNCHANGED <<detector, preprocessed, monitor, sinks, item, result, caller>>

WorkerSinkFails(w) == WNotifyFails(w) \/ WLogFails(w) \/ WExceptFails(w)

(***************************************************************************)
(* main, the --simulate branch, with simulate_network_data inlined.        *)
(***************************************************************************)
\* monitor_thread = monitor.start_monitoring()
MainStart ==
    /\ mainpc = "start"
    /\ start_monitoring
    /\ mainpc' = "load"

\* simulate_network_data: the two opening lines and pd.read_csv
MainLoad ==
    /\ mainpc = "load"
    /\ save_result(<< InfoLine("Carregando dados de simulacao"),
                      InfoLine("Iniciando simulacao") >>)
    /\ mainpc' = "feed"
    /\ UNCHANGED <<detector, preprocessed, monitor, log_file, threads, fed,
                   interrupted, stats, shown>>

\* one turn of the loop over the rows: add_data, and the progress lines every 100 rows
MainFeed ==
    /\ mainpc = "feed"
    /\ Len(fed) < MaxSamples
    /\ \E features_dict \in Samples : add_data(features_dict)
    /\ IF Len(fed') % ProgressEvery = 0
       THEN /\ stats' = << get_statistics >>
            /\ save_result(<< InfoLine("Processadas"), InfoLine("Taxa de ataques"),
                              InfoLine("Tempo medio") >>)
       ELSE UNCHANGED <<stats, report>>
    /\ UNCHANGED <<detector, preprocessed, running, results, result_file, log_file, threads,
                   mainpc, interrupted, shown>>

\* the rows are exhausted: simulate_network_data returns
MainFeedEnd ==
    /\ mainpc = "feed"
    /\ mainpc' = "join"
    /\ UNCHANGED <<detector, preprocessed, monitor, sinks, threads, fed, interrupted, stats, shown>>

\* monitor.data_queue.join() returns: every item put was marked done
MainJoin ==
    /\ mainpc = "join"
    /\ unfinished_tasks = 0
    /\ mainpc' = "finally"
    /\ UNCHANGED <<detector, preprocessed, monitor, sinks, threads, fed, interrupted, stats, shown>>

\* except KeyboardInterrupt, raised in simulate_network_data or in join
MainInterrupt ==
    /\ mainpc \in {"load", "feed", "join"}
    /\ save_result(<< InfoLine("Interrompido pelo usuario") >>)
    /\ interrupted' = TRUE
    /\ mainpc' = "finally"
    /\ UNCHANGED <<detector, preprocessed, monitor, log_file, threads, fed, stats, shown>>

\* finally: monitor.stop_monitoring()
MainStop ==
    /\ mainpc = "finally"
    /\ stop_monitoring
    /\ mainpc' = "report"

\* monitor.save_all_results()
MainSaveAll ==
    /\ mainpc = "report"
    /\ save_all_results
    /\ mainpc' = "stats"
    /\ UNCHANGED <<detector, preprocessed, monitor, log_file, threads, fed,
                   interrupted, stats, shown>>

\* stats = detector.get_statistics() and the final lines; main returns
MainFinalStats ==
    /\ mainpc = "stats"
    /\ stats' = << get_statistics >>
    /\ save_result(<< InfoLine("ESTATISTICAS FINAIS") >> \o StatLines(get_statistics))
    /\ mainpc' = "exit"
    /\ UNCHANGED <<detector, preprocessed, monitor, log_file, threads, fed, interrupted, shown>>

Main ==
    \/ MainStart \/ MainLoad \/ MainFeed \/ MainFeedEnd \/ MainJoin
    \/ MainInterrupt \/ MainStop \/ MainSaveAll \/ MainFinalStats

(***************************************************************************)
(* The methods called in any order by one caller.                          *)
(***************************************************************************)
CallStart ==
    /\ mainpc = "calls"
    /\ start_monitoring
    /\ UNCHANGED mainpc

CallStop ==
    /\ mainpc = "calls"
    /\ stop_monitoring
    /\ UNCHANGED mainpc

CallAddData ==
    /\ mainpc = "calls"
    /\ Len(fed) < MaxSamples
    /\ \E features_dict \in Samples : add_data(features_dict)
    /\ UNCHANGED <<detector, preprocessed, running, results, result_file, sinks, threads,
                   mainpc, interrupted, stats, shown>>

CallGetStatistics ==
    /\ mainpc = "calls"
    /\ stats' = << get_statistics >>
    /\ UNCHANGED <<detector, preprocessed, monitor, sinks, threads, mainpc, fed,
                   interrupted, shown>>

CallSaveAll ==
    /\ mainpc = "calls"
    /\ save_all_results
    /\ UNCHANGED <<detector, preprocessed, monitor, log_file, threads, caller>>

\* monitor.start_monitoring() called once, as main does
CallStartOnce ==
    /\ \A w \in Workers : wpc[w] = "none"
    /\ CallStart

Calls == CallStart \/ CallStop \/ CallAddData \/ CallGetStatistics \/ CallSaveAll

(***************************************************************************)
(* main, the --interactive and --benchmark branches: predict is called on  *)
(* the detector directly, one call after the other.                        *)
(***************************************************************************)
\* the detector constructed with any threshold, used without a monitor thread
InitPredict ==
    /\ Constructed
    /\ result_file = FALSE
    /\ mainpc = "predicting"
    /\ confidence_threshold \in WideThresholds
    /\ AsConstructed

\* the same detector after detector.low_threat_classes was given the adjusted list
InitAdjusted ==
    /\ Constructed
    /\ result_file = FALSE
    /\ mainpc = "predicting"
    /\ confidence_threshold \in WideThresholds
    /\ low_threat_classes = AdjustedLowThreatClasses
    /\ feature_names = <<"Header_Length", "Rate", "IAT">>
    /\ features_dict_in = <<>>

\* result = detector.predict(test_features)
MainPredict ==
    /\ mainpc = "predicting"
    /\ total_predictions < MaxPredictions
    /\ \E probabilities \in ProbabilityVectors :
         LET r == PredictResult(probabilities, classes, confidence_threshold)
         IN  /\ total_predictions' = total_predictions + 1
             /\ inference_times' = inference_times + 1
             /\ attack_detections' = attack_detections + AttackIncrement(r)
             /\ shown' = << r >>
    /\ UNCHANGED <<classes, confidence_threshold, low_threat_classes, feature_names,
                   scaler, preprocessed, monitor, sinks, threads, mainpc,
                   fed, interrupted, stats>>

\* detector.predict raises in preprocess_features or in session.run: main ends
MainPredictRaises ==
    /\ mainpc = "predicting"
    /\ mainpc' = "exit"
    /\ UNCHANGED <<detector, preprocessed, monitor, sinks, threads, fed, interrupted, stats, shown>>

\* stats = detector.get_statistics(), after the loop of --benchmark
MainBenchmarkStats ==
    /\ mainpc = "predicting"
    /\ total_predictions = MaxPredictions
    /\ stats' = << get_statistics >>
    /\ mainpc' = "exit"
    /\ UNCHANGED <<detector, preprocessed, monitor, sinks, threads, fed, interrupted, shown>>

(***************************************************************************)
(* preprocess_features called on its own, on one row.                      *)
(***************************************************************************)
\* the detector loaded from either list of feature names, and the row of the call
InitPreprocess ==
    /\ Constructed
    /\ confidence_threshold = DefaultThreshold
    /\ low_threat_classes = DefaultLowThreatClasses
    /\ result_file = FALSE
    /\ mainpc = "preprocessing"
    /\ feature_names \in FeatureNameLists
    /\ features_dict_in \in FeatureDicts

\* features = self.preprocess_features(features_dict)
MainPreprocess ==
    /\ mainpc = "preprocessing"
    /\ features = <<>>
    /\ features' = preprocess_features(features_dict_in, feature_names, scaler)
    /\ UNCHANGED <<detector, monitor, sinks, threads, caller, features_dict_in>>

(***************************************************************************)
(* Specifications.                                                         *)
(***************************************************************************)
\* main --simulate and the thread it starts, the sinks accepting every write
Next == Main \/ \E w \in Workers : Worker(w)

Spec == Init /\ [][Next]_vars

\* the same with writes of the thread to the sinks that may fail
NextSinkFails == Next \/ \E w \in Workers : WorkerSinkFails(w)

SpecSinkFails == Init /\ [][NextSinkFails]_vars

\* the methods of the monitor and of the detector called in any order
NextCalls == Calls \/ \E w \in Workers : Worker(w)

SpecCalls == InitCalls /\ [][NextCalls]_vars

\* one caller that starts the monitor once, and stops it and adds data at any time
NextStartOnce == CallStartOnce \/ CallStop \/ CallAddData \/ \E w \in Workers : Worker(w)

SpecStartOnce == InitCalls /\ [][NextStartOnce]_vars

\* the samples of the fair runs: one for each path through the loop body (no notice
\* logged, notice logged, json.dumps raising, predict raising)
FairSamples ==
    { s \in Samples : s.bad \/ s.probabilities \in {<<99, 1, 0, 0>>, <<5, 85, 5, 5>>,
                                                     <<0, 5, 0, 95>>} }

\* the monitor of main: the default threshold and a result file
InitFair ==
    /\ InitCalls
    /\ classes[1] = BenignTraffic
    /\ confidence_threshold = DefaultThreshold
    /\ result_file = TRUE

CallAddDataFair ==
    /\ mainpc = "calls"
    /\ Len(fed) < MaxSamples
    /\ \E features_dict \in FairSamples : add_data(features_dict)
    /\ UNCHANGED <<detector, preprocessed, running, results, result_file, sinks, threads,
                   mainpc, interrupted, stats, shown>>

NextStartOnceFair ==
    CallStartOnce \/ CallStop \/ CallAddDataFair \/ \E w \in Workers : Worker(w)

\* a caller that starts the monitor once, the thread it started scheduled again while
\* it can take a step: a started thread is runnable at each of its steps, and the get
\* of an empty queue returns after its timeout of one second
FairWorkers == WF_vars(\E w \in Workers : Worker(w))

SpecStartOnceFair == InitFair /\ [][NextStartOnceFair]_vars /\ FairWorkers

\* predict called directly, on every probability vector of the wide set
NextPredict == MainPredict \/ MainPredictRaises \/ MainBenchmarkStats

SpecPredict == InitPredict /\ [][NextPredict]_vars

\* preprocess_features called on every row of the bounded set
NextPreprocess == MainPreprocess

SpecPreprocess == InitPreprocess /\ [][NextPreprocess]_vars

\* predict called directly on the detector with the adjusted low-threat list
SpecAdjusted == InitAdjusted /\ [][NextPredict]_vars

(***************************************************************************)
(* Properties.                                                             *)
(***************************************************************************)
\* every result predict has returned: those appended, those a thread still holds and
\* the one main holds
Returned ==
    { results[i] : i \in 1..Len(results) }
        \cup { result[w][1] : w \in { v \in Workers : wpc[v] = "append" } }
        \cup { shown[i] : i \in 1..Len(shown) }

\* the number of results predict has returned
NumReturned == Len(results) + Cardinality({ w \in Workers : wpc[w] = "append" })

\* the number of them that are attacks
NumReturnedAttacks ==
    Len(SelectSeq(results, LAMBDA r : r.is_attack))
        + Cardinality({ w \in Workers : wpc[w] = "append" /\ result[w][1].is_attack })

\* no thread is between taking an item and finishing with it
WorkersIdle == \A w \in Workers : wpc[w] \in {"none", "loop", "get", "exited", "dead"}

\* join() returned normally in main
Drained == mainpc \in {"finally", "report", "stats", "exit"} /\ ~interrupted

\* the labels of the class lists that are benign names when lower-cased
BenignLabels == {BenignTraffic, NORMAL}

\* C1: a benign result is never an attack, a high threat or a DDoS, and a result is
\* benign exactly when its class, lower-cased, is a benign name, whatever the confidence.
C1_BenignIsNeverAttack ==
    \A r \in Returned :
        /\ r.is_benign => ~r.is_attack /\ ~r.is_high_threat /\ ~r.is_ddos
        /\ r.is_benign <=> r.predicted_class \in BenignLabels

\* C1 happens: BenignTraffic at 0.99 came out benign and not an attack.
C1_Witness ==
    \E r \in Returned :
        /\ r.predicted_class = BenignTraffic
        /\ r.confidence = 99
        /\ r.is_benign
        /\ ~r.is_attack

\* the prediction for a row that does not raise
Prediction(features_dict) ==
    PredictResult(features_dict.probabilities, classes, confidence_threshold)

\* C2: once the rows are enqueued and join() has returned, the results are exactly the
\* predictions of the rows, one per row, in the order the rows were enqueued.
C2_DrainedResultsAreFifo ==
    Drained =>
        /\ Len(results) = Len(fed)
        /\ \A i \in 1..Len(fed) : ~fed[i].bad /\ results[i] = Prediction(fed[i])

\* C2 happens: two different rows were enqueued and drained.
C2_Witness ==
    /\ Drained
    /\ Len(fed) = 2
    /\ fed[1] # fed[2]
    /\ Len(results) = 2

\* C3: a thread that caught an error writes the error line and goes back to its loop.
C3_ErrorNeverHaltsWorker ==
    [][ \A w \in Workers :
          (wpc[w] = "except" /\ wpc'[w] # "except")
              => /\ wpc'[w] = "loop"
                 /\ report' = Append(report, ErrorLine) ]_vars

\* C4: a non-benign result with confidence above 0.9 is an attack, whatever the class
\* and the threshold.
C4_VeryHighConfidenceIsAttack ==
    \A r \in Returned :
        (~r.is_benign /\ r.confidence > OverrideConfidence) => r.is_attack

\* C4 happens: Recon-PingSweep at 0.95 under a threshold above 0.9 is an attack.
C4_Witness ==
    /\ confidence_threshold > OverrideConfidence
    /\ \E r \in Returned :
         /\ r.predicted_class = Recon_PingSweep
         /\ r.confidence = 95
         /\ r.is_attack

\* C5: a low-threat class that is no DDoS / DoS label, with confidence above the
\* threshold and at most 0.9, is no attack, no high threat and no DDoS.
C5_LowThreatBelowOverrideIsNoAttack ==
    \A r \in Returned :
        ( /\ r.predicted_class \in low_threat_classes
          /\ ~Contains(DDoS, r.predicted_class)
          /\ ~Contains(DoS, r.predicted_class)
          /\ r.confidence > r.confidence_threshold
          /\ r.confidence <= OverrideConfidence )
            => ~r.is_attack /\ ~r.is_high_threat /\ ~r.is_ddos

\* C5 happens: VulnerabilityScan at 0.85 under threshold 0.8.
C5_Witness ==
    /\ confidence_threshold = 80
    /\ \E r \in Returned :
         /\ r.predicted_class = VulnerabilityScan
         /\ r.confidence = 85
         /\ ~r.is_attack

\* C6: total_predictions is the number of results predict has returned and
\* attack_detections the number of them that are attacks; a step that returns a result
\* adds 1 to the first and 1 to the second exactly for an attack, and any other step
\* leaves both as they are.
C6_CountersTrackPredictions ==
    /\ [](/\ total_predictions = NumReturned
          /\ attack_detections = NumReturnedAttacks)
    /\ [][ LET done == { w \in Workers : wpc[w] = "predict" /\ wpc'[w] = "append" }
           IN  /\ total_predictions' = total_predictions + Cardinality(done)
               /\ attack_detections' = attack_detections
                      + Cardinality({ w \in done : result'[w][1].is_attack }) ]_vars

\* C6 happens: two rows were processed, one raised in predict and one was an attack.
C6_Witness ==
    /\ Len(fed) = 2
    /\ \E i \in 1..2 : fed[i].bad
    /\ data_queue = <<>>
    /\ WorkersIdle
    /\ total_predictions = 1
    /\ attack_detections = 1

\* C7: the snapshot of get_statistics holds total_predictions, attack_detections and
\* attack_rate; attack_rate is 0 with no prediction and the quotient otherwise.
C7_SnapshotHasAttackRate ==
    stats # <<>> =>
        /\ {"total_predictions", "attack_detections", "attack_rate"} \subseteq DOMAIN stats[1]
        /\ stats[1].total_predictions = 0 => stats[1].attack_rate.num = 0
        /\ stats[1].total_predictions > 0 =>
             /\ stats[1].attack_rate.num = stats[1].attack_detections
             /\ stats[1].attack_rate.den = stats[1].total_predictions

\* C8: when no sample is in flight, the alert log holds the attacks of the result
\* sequence, one entry each, in order, and nothing else.
C8_AlertLogHoldsEveryAttack ==
    WorkersIdle => log_file = SelectSeq(results, LAMBDA r : r.is_attack)

\* the severity of a result, in the order of the claim
Severity(r) ==
    CASE r.is_attack -> "ATAQUE CRITICO"
      [] ~r.is_attack /\ r.is_benign -> "TRAFEGO NORMAL"
      [] ~r.is_attack /\ ~r.is_benign /\ r.confidence >= r.confidence_threshold
            -> "ATIVIDADE SUSPEITA"
      [] OTHER -> "BAIXO RISCO"

Severities == {"ATAQUE CRITICO", "TRAFEGO NORMAL", "ATIVIDADE SUSPEITA", "BAIXO RISCO"}

\* the per-sample notices of the report sink, in order
Notices == SelectSeq(report, LAMBDA l : l.kind \in Severities)

\* the final reports in the report sink
FinalReports == { i \in 1..Len(report) : report[i].kind = "RESULTADOS DA ANALISE" }

\* C9: every predicted sample gets one notice, of the severity the priority order
\* gives, and the final report gives every result that same severity.
C9_OneNoticePerSampleByPriority ==
    /\ FinalReports = {} =>
         /\ Len(Notices) = Len(results) - Cardinality({ w \in Workers : wpc[w] = "notify" })
         /\ \A i \in 1..Len(Notices) :
              /\ Notices[i].kind = Severity(results[i])
              /\ Notices[i].predicted_class = results[i].predicted_class
    /\ \A k \in FinalReports :
         \A i \in 1..Len(report[k].details) :
            report[k].details[i].status = Severity(results[i])

\* C9 happens: a sample at exactly the threshold is suspicious in the final report and
\* in a notice.
C9_Witness ==
    /\ \E k \in FinalReports : \E i \in 1..Len(report[k].details) :
         /\ report[k].details[i].status = "ATIVIDADE SUSPEITA"
         /\ report[k].details[i].confidence = confidence_threshold
    /\ \E i \in 1..Len(Notices) :
         /\ Notices[i].kind = "ATIVIDADE SUSPEITA"
         /\ Notices[i].confidence = confidence_threshold

\* C10: at most one thread is taking items, predicting and appending at any moment.
C10_AtMostOneWorker ==
    Cardinality({ w \in Workers : wpc[w] \in {"get", "predict", "append"} }) <= 1

\* C11: a call of stop_monitoring sets running to false and changes nothing else: the
\* pending queue, the results, the alert log, the report and the counters of the detector
\* stay as they were; a call when the monitor is already stopped, or was never started,
\* changes nothing at all.
C11_StopOnlyClearsRunning ==
    [][ /\ (running /\ ~running') =>
             UNCHANGED <<detector, preprocessed, data_queue, unfinished_tasks, results, result_file,
                         sinks, threads, caller>>
        /\ (~running /\ stop_monitoring) => UNCHANGED vars ]_vars

\* the monitor stopped after a start, with samples pending and results collected
C11_Witness ==
    /\ ~running
    /\ \E w \in Workers : wpc[w] # "none"
    /\ data_queue # <<>>
    /\ results # <<>>

\* C12: once stop_monitoring has been called and start_monitoring is not called again,
\* every started thread eventually leaves its loop, whether samples are pending or not
\* and with no further add_data: the get of an empty queue times out and running is
\* read again.
C12_StoppedWorkerExits ==
    (~running /\ \E w \in Workers : wpc[w] # "none")
        ~> (\A w \in Workers : wpc[w] \in {"none", "exited"})

\* the thread has left its loop after a stop, samples still pending
C12_Witness ==
    /\ ~running
    /\ \E w \in Workers : wpc[w] = "exited"
    /\ data_queue # <<>>

\* C13: with a result file named, every line written to it stays in it: a later write,
\* the final report included, only adds lines after those already there.
C13_ReportKeepsEveryLine ==
    [][ result_file =>
          /\ Len(report') >= Len(report)
          /\ SubSeq(report', 1, Len(report)) = report ]_vars

\* C14: when main has ended, the final report lists every result collected: a report
\* was written if there is any result, and its totals are the length of the result
\* sequence and the counters of the detector.
C14_ReportCoversEveryResult ==
    mainpc = "exit" =>
        /\ results # <<>> => FinalReports # {}
        /\ \A k \in FinalReports :
              /\ report[k].total = Len(results)
              /\ report[k].total = total_predictions
              /\ report[k].attacks = attack_detections

\* C15: the predicted class of every result is the class at the index of the largest
\* probability, the lowest such index when several are equal, so it is one of the
\* classes; the confidence is that largest probability.
C15_PredictedClassIsFirstArgmax ==
    \A r \in Returned :
        \E i \in 1..Len(classes) :
            /\ r.predicted_class = classes[i]
            /\ r.confidence = r.all_probabilities[i]
            /\ \A j \in 1..Len(classes) : r.all_probabilities[j] <= r.confidence
            /\ \A j \in 1..(i - 1) : r.all_probabilities[j] < r.confidence

\* a result whose largest probability is at two indices
C15_Witness ==
    \E r \in Returned :
        /\ r.all_probabilities[2] = r.all_probabilities[3]
        /\ r.all_probabilities[1] < r.all_probabilities[2]
        /\ r.all_probabilities[4] < r.all_probabilities[2]
        /\ r.predicted_class = classes[2]

C17_StoppedWorkerTakesNothing ==
    [][ \A w \in Workers : (~running /\ wpc[w] = "get") => wpc'[w] # "predict" ]_vars

\* C17, amended: while the monitor is stopped no thread enters the get of the queue, so a
\* thread takes at most the one sample of the get it was already waiting in when
\* stop_monitoring was called; and once every thread has left its loop the samples in
\* the queue stay there.
C17_StoppedWorkerEntersGetNoMore ==
    [][ /\ \A w \in Workers : (~running /\ wpc'[w] = "get") => wpc[w] = "get"
        /\ (\A w \in Workers : wpc[w] \in {"none", "exited"}) =>
              /\ Len(data_queue') >= Len(data_queue)
              /\ SubSeq(data_queue', 1, Len(data_queue)) = data_queue ]_vars

\* the monitor stopped and the thread gone, one sample processed and one left queued
C17_Witness ==
    /\ ~running
    /\ \E w \in Workers : wpc[w] = "exited"
    /\ Len(results) = 1
    /\ Len(data_queue) = 1

\* C18: a result whose class is in the low-threat list and has DDoS or DoS in its
\* label, with a confidence above the threshold, is an attack, is not a high threat
\* and is a DDoS, whether the confidence is above 0.9 or not.
C18_LowThreatDDoSAboveThresholdIsAttack ==
    \A r \in Returned :
        ( /\ r.predicted_class \in low_threat_classes
          /\ Contains(DDoS, r.predicted_class) \/ Contains(DoS, r.predicted_class)
          /\ r.confidence > confidence_threshold )
        => (r.is_attack /\ ~r.is_high_threat /\ r.is_ddos)

\* a low-threat DoS class above the threshold and not above 0.9
C18_Witness ==
    \E r \in Returned :
        /\ r.predicted_class \in low_threat_classes
        /\ Contains(DoS, r.predicted_class)
        /\ r.confidence > confidence_threshold
        /\ r.confidence <= OverrideConfidence
        /\ r.is_attack

\* C19: when every sample handed to the queue has been taken and no thread is handling
\* one, every sample has been marked done, so that the join of main returns; this on
\* the path where processing succeeded and on the path where it raised.
C19_ProcessedQueueIsDrained ==
    (data_queue = <<>> /\ WorkersIdle) => unfinished_tasks = 0

\* C20: a result whose confidence is not above the threshold and not above 0.9 is not
\* an attack, whatever its class; this includes a high-threat or DDoS class exactly at
\* the threshold.
C20_BelowBothBarsIsNoAttack ==
    \A r \in Returned :
        (r.confidence <= confidence_threshold /\ r.confidence <= OverrideConfidence)
        => ~r.is_attack

\* a high-threat DDoS class exactly at the threshold
C20_Witness ==
    \E r \in Returned :
        /\ r.confidence = confidence_threshold
        /\ r.confidence <= OverrideConfidence
        /\ r.is_high_threat
        /\ r.is_ddos
        /\ ~r.is_attack

====
